---- MODULE Spec2Model ----
(***************************************************************************)
(* Model of package farm (src/farm/farm.go): the Farm facade, the write    *)
(* coordinator Farm.write behind Insert and Delete, and the repair          *)
(* coordinator Farm.Repair.  Goroutines are processes; a buffered channel   *)
(* is a sequence with a capacity; the clusters are external collaborators  *)
(* whose replies are chosen nondeterministically.  The set functions       *)
(* unionDifference and tupleSet.orderedLimitedSlice are operators, applied *)
(* by one action each to inputs drawn in the initial state.                *)
(***************************************************************************)
EXTENDS Integers, Sequences, FiniteSets, TLC

VARIABLES
    nClusters,      \* len(f.clusters)
    writeQuorum,    \* f.writeQuorum
    store,          \* per cluster: the (score, side) it holds for (Key, Member)
    calls,          \* per cluster: the Insert/Delete calls it has received
    instr,          \* f.instrumentation: how often each counter/timer was recorded
    wpc,            \* Farm.write: "idle", "gather" or "done"
    wop,            \* Farm.write: the action, "Insert" or "Delete"
    tuples,         \* Farm.write: the batch
    wtask,          \* Farm.write: per-cluster goroutine position
    werr,           \* Farm.write: the error the cluster action returned to the goroutine
    errChan,        \* Farm.write: errChan
    errors,         \* Farm.write: errors
    got,            \* Farm.write: got (equal to the loop index i)
    wresult,        \* Farm.write: the value returned to the caller
    rpc,            \* Farm.Repair: "idle", "gather" or "returned"
    rtask,          \* Farm.Repair: per-cluster Score goroutine position
    responsesChan,  \* Farm.Repair: responsesChan
    ri,             \* Farm.Repair: the gather loop index i
    highestScore,   \* Farm.Repair: highestScore
    wasInserted,    \* Farm.Repair: wasInserted
    clustersUpToDate, \* Farm.Repair: the keys of clustersUpToDate
    rresp,          \* Farm.Repair: the response each Score goroutine has sent
    gathered,       \* Farm.Repair: the responses received so far, in order
    push,           \* Farm.Repair: per-cluster push goroutine position
    spawned,        \* Farm.Repair: instrumentation goroutines started and not yet run
    spc,            \* set functions: "idle" before the call, "done" after it
    tupleSets,      \* unionDifference: the argument tupleSets
    union,          \* unionDifference: the first result
    difference,     \* unionDifference: the second result
    tset,           \* orderedLimitedSlice: the receiver s
    limit,          \* orderedLimitedSlice: the argument limit
    sliced          \* orderedLimitedSlice: the result

farmVars  == <<nClusters, writeQuorum>>
writeVars == <<wpc, wop, tuples, wtask, werr, errChan, errors, got, wresult>>
repairVars == <<rpc, rtask, responsesChan, ri, highestScore, wasInserted,
                clustersUpToDate, rresp, gathered, push, spawned>>
setVars == <<spc, tupleSets, union, difference, tset, limit, sliced>>
vars == <<nClusters, writeQuorum, store, calls, instr,
          wpc, wop, tuples, wtask, werr, errChan, errors, got, wresult,
          rpc, rtask, responsesChan, ri, highestScore, wasInserted,
          clustersUpToDate, rresp, gathered, push, spawned,
          spc, tupleSets, union, difference, tset, limit, sliced>>

----------------------------------------------------------------------------
(* Bounds of the model. *)

MaxClusters == 3
MaxRepairClusters == 2
MaxScore == 2

AllClusters == 1..MaxClusters
Clusters == 1..nClusters
Scores == 0..MaxScore

Key == "k"
Member == "m"

(* common.KeyScoreMember *)
KSM(score) == [Key |-> Key, Score |-> score, Member |-> Member]

(* The batches a client passes to Insert and Delete. *)
Batches == {<<>>} \cup {<<KSM(1)>>} \cup {<<KSM(1), KSM(MaxScore)>>}

(* Error values.  An error is nil or carries a message, a string modelled  *)
(* as a sequence of characters.                                            *)
Nil == [nil |-> TRUE, msg |-> <<>>]
Err(m) == [nil |-> FALSE, msg |-> m]
ErrMsgs == {<<"a">>, <<"b", "c">>}
ClusterErrs == {Nil} \cup {Err(m) : m \in ErrMsgs}

----------------------------------------------------------------------------
(* Instrumentation: counter and timer names, and recording.                *)

Counters == {"InsertCall", "InsertRecordCount", "InsertCallDuration",
             "InsertRecordDuration", "InsertQuorumFailure",
             "DeleteCall", "DeleteRecordCount", "DeleteCallDuration",
             "DeleteRecordDuration", "DeleteQuorumFailure",
             "RepairCall", "RepairRequestCount", "RepairCheckPartialFailure",
             "RepairCheckCompleteFailure", "RepairCheckRedundant",
             "RepairWriteCount", "RepairWriteSuccess", "RepairWriteFailure",
             "RepairCheckDuration", "RepairWriteDuration"}

(* Record name n times in instrumentation ins. *)
Record(ins, name, n) == [ins EXCEPT ![name] = @ + n]

(* writeInstrumentation: insertInstrumentation / deleteInstrumentation. *)
instrCall(ins, op) == Record(ins, op \o "Call", 1)
instrRecordCount(ins, op, n) == Record(ins, op \o "RecordCount", n)
instrCallDuration(ins, op) == Record(ins, op \o "CallDuration", 1)
instrRecordDuration(ins, op) == Record(ins, op \o "RecordDuration", 1)
instrQuorumFailure(ins, op) == Record(ins, op \o "QuorumFailure", 1)

----------------------------------------------------------------------------
(* strings.Join and fmt.Errorf as used by Farm.write.                      *)

RECURSIVE Join(_, _)
Join(strs, sep) ==
    IF Len(strs) = 0 THEN <<>>
    ELSE IF Len(strs) = 1 THEN strs[1]
    ELSE strs[1] \o sep \o Join(Tail(strs), sep)

(* Mutant: only the first error is reported. *)
NoQuorumErrorFirstOnly(errs) ==
    Err(<<"n", "o", " ", "q", "u", "o", "r", "u", "m", " ", "(">>
        \o (IF Len(errs) = 0 THEN <<>> ELSE errs[1]) \o <<")">>)

(* fmt.Errorf("no quorum (%s)", strings.Join(errors, "; ")) *)
NoQuorumError(errs) ==
    Err(<<"n", "o", " ", "q", "u", "o", "r", "u", "m", " ", "(">>
        \o Join(errs, <<";", " ">>) \o <<")">>)

(* strings.Contains *)
Contains(s, sub) ==
    \E i \in 0..(Len(s) - Len(sub)) :
        \A j \in 1..Len(sub) : s[i + j] = sub[j]

----------------------------------------------------------------------------
(* The cluster collaborator: how a write changes what a cluster holds.     *)
(* A write advances the score of the member on its side and a lower score  *)
(* is dropped; the member lives on the side with the higher score, and on  *)
(* equal scores on the inserted side.                                      *)

ApplyTuple(st, op, t) ==
    IF t.Score > st.score
    THEN [score |-> t.Score, inserted |-> (op = "Insert")]
    ELSE IF t.Score = st.score /\ op = "Insert"
    THEN [score |-> t.Score, inserted |-> TRUE]
    ELSE st

RECURSIVE ApplyWrite(_, _, _)
ApplyWrite(st, op, batch) ==
    IF Len(batch) = 0 THEN st
    ELSE ApplyWrite(ApplyTuple(st, op, Head(batch)), op, Tail(batch))

(* The entry a cluster logs for a call it received. *)
Call(op, batch, err) == [op |-> op, tuples |-> batch, ok |-> err.nil]

----------------------------------------------------------------------------
(* Farm.write *)

(* Mutant: the errors are not subtracted from the replies. *)
haveQuorumCountsErrors(g, errs, need) == g >= need

(* Mutant: one success more than the quorum is asked for. *)
haveQuorumStrict(g, errs, need) == g - Len(errs) > need

(* haveQuorum := func() bool { return got-len(errors) >= need } *)
haveQuorum(g, errs, need) == g - Len(errs) >= need

(* Mutant: the loop is also left once the quorum is out of reach. *)
gatherDoneEarlyFail(g, errs, need, cap) ==
    \/ g - Len(errs) >= need
    \/ g >= cap
    \/ (g - Len(errs)) + (cap - g) < need

(* Mutant: the loop has no break. *)
gatherDoneNoBreak(g, errs, need, cap) == g >= cap

(* The gather loop is left on break or when i reaches cap(errChan). *)
gatherDone(g, errs, need, cap) == haveQuorum(g, errs, need) \/ g >= cap

(* Report: the value write returns for the final got/errors. *)
reportResult(g, errs, need) ==
    IF ~haveQuorum(g, errs, need) THEN NoQuorumError(errs) ELSE Nil

(* Report and the deferred function: what they record for the final got/errors. *)
reportInstr(ins, op, g, errs, need) ==
    LET reported == IF ~haveQuorum(g, errs, need) THEN instrQuorumFailure(ins, op) ELSE ins
    IN instrRecordDuration(instrCallDuration(reported, op), op)

(* Mutant: the channel is one slot short. *)
chanCapOne == nClusters - 1

(* make(chan error, len(f.clusters)) *)
chanCap == nClusters

(* Mutant: the empty batch is not short-circuited. *)
emptyBatchNever(batch) == FALSE

(* The high performance optimization: if len(tuples) <= 0 { return nil } *)
emptyBatch(batch) == Len(batch) <= 0

(* f.write(tuples, action, instr) up to its first channel receive. *)
write(op, batch) ==
    /\ wpc = "idle"
    /\ wop' = op
    /\ tuples' = batch
    /\ IF emptyBatch(batch)
       THEN /\ wpc' = "done"
            /\ wresult' = Nil
            /\ UNCHANGED <<instr, wtask, errChan, errors, got>>
       ELSE /\ wtask' = [c \in AllClusters |-> IF c \in Clusters THEN "run" ELSE "none"]
            /\ errChan' = <<>>
            /\ errors' = <<>>
            /\ got' = 0
            /\ LET ins == instrRecordCount(instrCall(instr, op), op, Len(batch))
               IN IF 0 < chanCap
                  THEN /\ wpc' = "gather"
                       /\ wresult' = wresult
                       /\ instr' = ins
                  ELSE /\ wpc' = "done"
                       /\ wresult' = reportResult(0, <<>>, writeQuorum)
                       /\ instr' = reportInstr(ins, op, 0, <<>>, writeQuorum)
    /\ UNCHANGED <<farmVars, setVars, store, calls, werr, repairVars>>

Insert == \E batch \in Batches : write("Insert", batch)

Delete == \E batch \in Batches : write("Delete", batch)

(* The goroutine of cluster c evaluates action(c, tuples). *)
ClusterAction(c) ==
    /\ wtask[c] = "run"
    /\ \E err \in ClusterErrs :
        /\ werr' = [werr EXCEPT ![c] = err]
        /\ calls' = [calls EXCEPT ![c] = Append(@, Call(wop, tuples, err))]
        /\ store' = [store EXCEPT ![c] = IF err.nil THEN ApplyWrite(@, wop, tuples) ELSE @]
    /\ wtask' = [wtask EXCEPT ![c] = "acted"]
    /\ UNCHANGED <<farmVars, setVars, instr, wpc, wop, tuples, errChan, errors, got, wresult,
                   repairVars>>

(* The goroutine of cluster c sends its error on errChan; a send on a *)
(* buffered channel blocks while the buffer is full.                  *)
TaskSend(c) ==
    /\ wtask[c] = "acted"
    /\ Len(errChan) < chanCap
    /\ errChan' = Append(errChan, werr[c])
    /\ wtask' = [wtask EXCEPT ![c] = "sent"]
    /\ UNCHANGED <<farmVars, setVars, store, calls, instr, wpc, wop, tuples, werr, errors, got,
                   wresult, repairVars>>

(* One iteration of the gather loop; the last one runs on into Report. *)
Gather ==
    /\ wpc = "gather"
    /\ Len(errChan) > 0
    /\ LET err == Head(errChan)
           errs == IF ~err.nil THEN Append(errors, err.msg) ELSE errors
           g == got + 1
       IN /\ errChan' = Tail(errChan)
          /\ errors' = errs
          /\ got' = g
          /\ IF gatherDone(g, errs, writeQuorum, chanCap)
             THEN /\ wpc' = "done"
                  /\ wresult' = reportResult(g, errs, writeQuorum)
                  /\ instr' = reportInstr(instr, wop, g, errs, writeQuorum)
             ELSE UNCHANGED <<wpc, wresult, instr>>
    /\ UNCHANGED <<farmVars, setVars, store, calls, wop, tuples, wtask, werr, repairVars>>

----------------------------------------------------------------------------
(* Farm.Repair *)

(* keyMember *)
KeyMembers == {[Key |-> Key, Member |-> Member]}

(* What a cluster may hold for (Key, Member). *)
StoreStates == [score : Scores, inserted : BOOLEAN]

(* scoreResponseTuple *)
ScoreResponse(c, score, ins, failed) ==
    [cluster |-> c, score |-> score, wasInserted |-> ins, err |-> failed]

(* The state the gather loop of Repair carries between iterations. *)
GatherState(hs, wi, utd) ==
    [highestScore |-> hs, wasInserted |-> wi, clustersUpToDate |-> utd]

(* Mutant: any response with another score is elected. *)
gatherResponseLastWins(st, resp) ==
    IF resp.err THEN st
    ELSE IF resp.score = st.highestScore /\ resp.wasInserted = st.wasInserted
    THEN GatherState(st.highestScore, st.wasInserted,
                     st.clustersUpToDate \cup {resp.cluster})
    ELSE IF resp.score # st.highestScore
    THEN GatherState(resp.score, resp.wasInserted, {resp.cluster})
    ELSE st

(* Mutant: clustersUpToDate is not emptied when a higher score is elected. *)
gatherResponseNoReset(st, resp) ==
    IF resp.err THEN st
    ELSE IF resp.score = st.highestScore /\ resp.wasInserted = st.wasInserted
    THEN GatherState(st.highestScore, st.wasInserted,
                     st.clustersUpToDate \cup {resp.cluster})
    ELSE IF resp.score > st.highestScore
    THEN GatherState(resp.score, resp.wasInserted,
                     st.clustersUpToDate \cup {resp.cluster})
    ELSE st

(* Mutant: on equal scores the later response is elected. *)
gatherResponseLaterTieWins(st, resp) ==
    IF resp.err THEN st
    ELSE IF resp.score = st.highestScore /\ resp.wasInserted = st.wasInserted
    THEN GatherState(st.highestScore, st.wasInserted,
                     st.clustersUpToDate \cup {resp.cluster})
    ELSE IF resp.score >= st.highestScore
    THEN GatherState(resp.score, resp.wasInserted, {resp.cluster})
    ELSE st

(* Mutant: a response equal to the elected one is not marked up to date. *)
gatherResponseNoMark(st, resp) ==
    IF resp.err THEN st
    ELSE IF resp.score = st.highestScore /\ resp.wasInserted = st.wasInserted
    THEN st
    ELSE IF resp.score > st.highestScore
    THEN GatherState(resp.score, resp.wasInserted, {resp.cluster})
    ELSE st

(* The body of the gather loop for one response. *)
gatherResponse(st, resp) ==
    IF resp.err THEN st
    ELSE IF resp.score = st.highestScore /\ resp.wasInserted = st.wasInserted
    THEN GatherState(st.highestScore, st.wasInserted,
                     st.clustersUpToDate \cup {resp.cluster})
    ELSE IF resp.score > st.highestScore
    THEN GatherState(resp.score, resp.wasInserted, {resp.cluster})
    ELSE st

(* Mutant: a highest score of zero does not end the repair. *)
repairOutcomeNoZeroCheck(st, n) ==
    IF Cardinality(st.clustersUpToDate) = n THEN "redundant" ELSE "write"

(* What Repair does after the gather loop: "failure", "redundant" or "write". *)
repairOutcome(st, n) ==
    IF st.highestScore = 0 THEN "failure"
    ELSE IF Cardinality(st.clustersUpToDate) = n THEN "redundant"
    ELSE "write"

(* The clusters Repair starts a push goroutine for. *)
pushTargets(st, n) ==
    IF repairOutcome(st, n) = "write"
    THEN {c \in 1..n : c \notin st.clustersUpToDate}
    ELSE {}

(* Mutant: the redundant check is counted as a write. *)
outcomeCounterNoRedundant(outcome) ==
    IF outcome = "failure" THEN "RepairCheckCompleteFailure" ELSE "RepairWriteCount"

(* The counter Repair records for its outcome. *)
outcomeCounter(outcome) ==
    IF outcome = "failure" THEN "RepairCheckCompleteFailure"
    ELSE IF outcome = "redundant" THEN "RepairCheckRedundant"
    ELSE "RepairWriteCount"

(* The instrumentation goroutines Repair starts. *)
InstrTasks == {"RepairCall", "RepairCheckDuration"}

(* Repair from the end of the gather loop to its return. *)
repairFinish(st, ins) ==
    /\ rpc' = "returned"
    /\ spawned' = spawned \cup {"RepairCheckDuration"}
    /\ instr' = Record(ins, outcomeCounter(repairOutcome(st, nClusters)), 1)
    /\ push' = [c \in AllClusters |->
                  IF c \in pushTargets(st, nClusters) THEN "run" ELSE "none"]

(* f.Repair(km) up to its first channel receive. *)
Repair(km) ==
    /\ rpc = "idle"
    /\ km.Key = Key /\ km.Member = Member
    /\ highestScore' = 0
    /\ wasInserted' = FALSE
    /\ clustersUpToDate' = {}
    /\ responsesChan' = <<>>
    /\ rtask' = [c \in AllClusters |-> IF c \in Clusters THEN "run" ELSE "none"]
    /\ ri' = 0
    /\ gathered' = <<>>
    /\ IF 0 < nClusters
       THEN /\ rpc' = "gather"
            /\ spawned' = spawned \cup {"RepairCall"}
            /\ UNCHANGED <<instr, push>>
       ELSE /\ rpc' = "returned"
            /\ spawned' = spawned \cup {"RepairCall", "RepairCheckDuration"}
            /\ instr' = Record(instr, outcomeCounter(
                             repairOutcome(GatherState(0, FALSE, {}), nClusters)), 1)
            /\ push' = [c \in AllClusters |->
                          IF c \in pushTargets(GatherState(0, FALSE, {}), nClusters)
                          THEN "run" ELSE "none"]
    /\ UNCHANGED <<farmVars, setVars, store, calls, writeVars, rresp>>

(* An instrumentation goroutine runs. *)
InstrTask(g) ==
    /\ g \in spawned
    /\ spawned' = spawned \ {g}
    /\ instr' = IF g = "RepairCall"
                THEN Record(Record(instr, "RepairCall", 1), "RepairRequestCount", 1)
                ELSE Record(instr, "RepairCheckDuration", 1)
    /\ UNCHANGED <<farmVars, setVars, store, calls, writeVars, rpc, rtask, responsesChan, ri,
                   highestScore, wasInserted, clustersUpToDate, rresp, gathered, push>>

(* The goroutine of cluster c calls c.Score and sends the response. *)
ScoreTask(c) ==
    /\ rtask[c] = "run"
    /\ Len(responsesChan) < nClusters
    /\ \E failed \in BOOLEAN :
        LET resp == IF failed THEN ScoreResponse(c, 0, FALSE, TRUE)
                    ELSE ScoreResponse(c, store[c].score, store[c].inserted, FALSE)
        IN /\ responsesChan' = Append(responsesChan, resp)
           /\ rresp' = [rresp EXCEPT ![c] = resp]
    /\ rtask' = [rtask EXCEPT ![c] = "sent"]
    /\ UNCHANGED <<farmVars, setVars, store, calls, instr, writeVars, rpc, ri, highestScore,
                   wasInserted, clustersUpToDate, gathered, push, spawned>>

(* One iteration of the gather loop; the last one runs on to the return. *)
RepairGather ==
    /\ rpc = "gather"
    /\ Len(responsesChan) > 0
    /\ LET resp == Head(responsesChan)
           st == gatherResponse(
                     GatherState(highestScore, wasInserted, clustersUpToDate), resp)
           ins == IF resp.err THEN Record(instr, "RepairCheckPartialFailure", 1)
                  ELSE instr
       IN /\ responsesChan' = Tail(responsesChan)
          /\ highestScore' = st.highestScore
          /\ wasInserted' = st.wasInserted
          /\ clustersUpToDate' = st.clustersUpToDate
          /\ ri' = ri + 1
          /\ gathered' = Append(gathered, resp)
          /\ IF ri + 1 < nClusters
             THEN /\ instr' = ins
                  /\ UNCHANGED <<rpc, push, spawned>>
             ELSE repairFinish(st, ins)
    /\ UNCHANGED <<farmVars, setVars, store, calls, writeVars, rtask, rresp>>

(* The push goroutine of cluster c: one Insert or Delete of ksm, then the *)
(* success or failure counter and the deferred duration.                  *)
(* Mutant: the push is an Insert whatever the elected side. *)
pushOpAlwaysInsert(ins) == "Insert"

pushOp(ins) == IF ins THEN "Insert" ELSE "Delete"

(* Mutant: a push that failed is tried again. *)
PushRetriesFailure(c) ==
    /\ push[c] = "run"
    /\ \E err \in ClusterErrs :
        LET ksm == [Key |-> Key, Score |-> highestScore, Member |-> Member]
            op == IF wasInserted THEN "Insert" ELSE "Delete"
        IN /\ calls' = [calls EXCEPT ![c] = Append(@, Call(op, <<ksm>>, err))]
           /\ store' = [store EXCEPT ![c] =
                            IF err.nil THEN ApplyWrite(@, op, <<ksm>>) ELSE @]
           /\ instr' = Record(Record(instr,
                            IF err.nil THEN "RepairWriteSuccess" ELSE "RepairWriteFailure", 1),
                            "RepairWriteDuration", 1)
           /\ push' = [push EXCEPT ![c] = IF err.nil \/ Len(calls[c]) > 0 THEN "done" ELSE "run"]
    /\ UNCHANGED <<farmVars, setVars, writeVars, rpc, rtask, responsesChan, ri, highestScore,
                   wasInserted, clustersUpToDate, rresp, gathered, spawned>>

Push(c) ==
    /\ push[c] = "run"
    /\ \E err \in ClusterErrs :
        LET ksm == [Key |-> Key, Score |-> highestScore, Member |-> Member]
            op == pushOp(wasInserted)
        IN /\ calls' = [calls EXCEPT ![c] = Append(@, Call(op, <<ksm>>, err))]
           /\ store' = [store EXCEPT ![c] =
                            IF err.nil THEN ApplyWrite(@, op, <<ksm>>) ELSE @]
           /\ instr' = Record(Record(instr,
                            IF err.nil THEN "RepairWriteSuccess" ELSE "RepairWriteFailure", 1),
                            "RepairWriteDuration", 1)
    /\ push' = [push EXCEPT ![c] = "done"]
    /\ UNCHANGED <<farmVars, setVars, writeVars, rpc, rtask, responsesChan, ri, highestScore,
                   wasInserted, clustersUpToDate, rresp, gathered, spawned>>

----------------------------------------------------------------------------
(* unionDifference and the tupleSet methods *)

MaxLimit == 3

OtherKey == "j"
OtherMember == "n"

(* Go compares strings byte by byte; the strings of the model in that order. *)
StringOrder == <<"j", "k", "m", "n">>
StringRank(str) == CHOOSE i \in 1..Len(StringOrder) : StringOrder[i] = str
StringLess(x, y) == StringRank(x) < StringRank(y)

(* common.KeyScoreMember and keyMember *)
KeyScoreMember(k, score, m) == [Key |-> k, Score |-> score, Member |-> m]
keyMember(k, m) == [Key |-> k, Member |-> m]
keyMemberOf(tuple) == keyMember(tuple.Key, tuple.Member)

(* The tuples the inputs of unionDifference are made of: (Key, Member) at *)
(* every positive score and a second member at one score.                *)
UnionTuples ==
    {KeyScoreMember(Key, sc, Member) : sc \in 1..MaxScore}
        \cup {KeyScoreMember(Key, 1, OtherMember)}

(* The tuples the receivers of orderedLimitedSlice are made of. *)
SliceTuples ==
    {KeyScoreMember(k, sc, m) : k \in {OtherKey, Key}, sc \in 1..MaxScore,
                                m \in {Member, OtherMember}}

(* common.KeyScoreMembers.Less: key ascending, score descending, member *)
(* ascending.                                                          *)
Less(x, y) ==
    IF x.Key # y.Key THEN StringLess(x.Key, y.Key)
    ELSE IF x.Score # y.Score THEN x.Score > y.Score
    ELSE StringLess(x.Member, y.Member)

(* for tuple := range s: Go leaves the order unspecified; the model yields *)
(* the tuples from the last to the first of the canonical order, or from   *)
(* the first to the last.                                                  *)
rangeNext(set, up) ==
    CHOOSE t \in set : \A u \in set \ {t} : IF up THEN Less(u, t) ELSE Less(t, u)

(* A Go map: a function on the keys that are present. *)
EmptyMap == [x \in {} |-> 0]
MapPut(m, k, v) == [x \in DOMAIN m \cup {k} |-> IF x = k THEN v ELSE m[x]]

(* Mutant: the lower score replaces the recorded one. *)
betterScoreLower(present, score, tupleScore) == ~present \/ tupleScore < score

(* Mutant: every tuple replaces the recorded score. *)
betterScoreAlways(present, score, tupleScore) == TRUE

(* if score, ok := scores[km]; !ok || tuple.Score > score *)
betterScore(present, score, tupleScore) == ~present \/ tupleScore > score

(* The body of the inner loop of unionDifference for one tuple. *)
unionDifferenceTuple(acc, tuple) ==
    LET km == keyMemberOf(tuple)
        present == km \in DOMAIN acc.scores
    IN [scores |-> IF betterScore(present, IF present THEN acc.scores[km] ELSE 0,
                                  tuple.Score)
                   THEN MapPut(acc.scores, km, tuple.Score)
                   ELSE acc.scores,
        counts |-> MapPut(acc.counts, tuple,
                          IF tuple \in DOMAIN acc.counts THEN acc.counts[tuple] + 1
                          ELSE 1)]

(* for tuple := range tupleSet *)
RECURSIVE unionDifferenceSet(_, _, _)
unionDifferenceSet(acc, set, up) ==
    IF set = {} THEN acc
    ELSE LET tuple == rangeNext(set, up)
         IN unionDifferenceSet(unionDifferenceTuple(acc, tuple), set \ {tuple}, up)

(* for _, tupleSet := range tupleSets *)
RECURSIVE unionDifferenceSets(_, _, _)
unionDifferenceSets(acc, sets, up) ==
    IF sets = <<>> THEN acc
    ELSE unionDifferenceSets(unionDifferenceSet(acc, Head(sets), up), Tail(sets), up)

(* Mutant: a tuple counts as agreed when one input misses it. *)
disagreedLenient(count, expectedCount) == count + 1 < expectedCount

(* if count < expectedCount *)
disagreed(count, expectedCount) == count < expectedCount

unionDifference(sets, up) ==
    LET expectedCount == Len(sets)
        acc == unionDifferenceSets([scores |-> EmptyMap, counts |-> EmptyMap], sets, up)
    IN [union |-> {KeyScoreMember(km.Key, acc.scores[km], km.Member) :
                      km \in DOMAIN acc.scores},
        difference |-> {keyMemberOf(ksm) :
                          ksm \in {t \in DOMAIN acc.counts :
                                      disagreed(acc.counts[t], expectedCount)}}]

(* The call unionDifference(tupleSets). *)
UnionDifference ==
    /\ spc = "idle"
    /\ \E up \in BOOLEAN :
        LET r == unionDifference(tupleSets, up)
        IN /\ union' = r.union
           /\ difference' = r.difference
    /\ spc' = "done"
    /\ UNCHANGED <<farmVars, store, calls, instr, writeVars, repairVars,
                   tupleSets, tset, limit, sliced>>

(* tupleSet.slice *)
RECURSIVE slice(_, _)
slice(set, up) ==
    IF set = {} THEN <<>>
    ELSE LET tuple == rangeNext(set, up)
         IN <<tuple>> \o slice(set \ {tuple}, up)

(* sort.Sort(common.KeyScoreMembers(a)): insertion of each element before *)
(* the first one that is not less than it.                                *)
RECURSIVE sortInsert(_, _)
sortInsert(sorted, x) ==
    IF sorted = <<>> THEN <<x>>
    ELSE IF Less(Head(sorted), x) THEN <<Head(sorted)>> \o sortInsert(Tail(sorted), x)
    ELSE <<x>> \o sorted

RECURSIVE sortSort(_)
sortSort(a) ==
    IF a = <<>> THEN <<>>
    ELSE sortInsert(sortSort(Tail(a)), Head(a))

(* Mutant: the slice keeps one element more than the limit. *)
limitedOneMore(a, lim) == IF Len(a) > lim + 1 THEN SubSeq(a, 1, lim + 1) ELSE a

(* if len(a) > limit { a = a[:limit] } *)
limited(a, lim) == IF Len(a) > lim THEN SubSeq(a, 1, lim) ELSE a

orderedLimitedSlice(set, lim, up) == limited(sortSort(slice(set, up)), lim)

(* The call s.orderedLimitedSlice(limit). *)
OrderedLimitedSlice ==
    /\ spc = "idle"
    /\ \E up \in BOOLEAN : sliced' = orderedLimitedSlice(tset, limit, up)
    /\ spc' = "done"
    /\ UNCHANGED <<farmVars, store, calls, instr, writeVars, repairVars,
                   tupleSets, union, difference, tset, limit>>

----------------------------------------------------------------------------

NoStore == [score |-> 0, inserted |-> FALSE]
NotReturned == [nil |-> FALSE, msg |-> <<"?">>]

InitWriteVars ==
    /\ wpc = "idle"
    /\ wop = "none"
    /\ tuples = <<>>
    /\ wtask = [c \in AllClusters |-> "none"]
    /\ werr = [c \in AllClusters |-> Nil]
    /\ errChan = <<>>
    /\ errors = <<>>
    /\ got = 0
    /\ wresult = NotReturned

InitRepairVars ==
    /\ rpc = "idle"
    /\ rtask = [c \in AllClusters |-> "none"]
    /\ responsesChan = <<>>
    /\ ri = 0
    /\ highestScore = 0
    /\ wasInserted = FALSE
    /\ clustersUpToDate = {}
    /\ rresp = [c \in AllClusters |-> ScoreResponse(c, 0, FALSE, FALSE)]
    /\ gathered = <<>>
    /\ push = [c \in AllClusters |-> "none"]
    /\ spawned = {}

InitSetVars ==
    /\ spc = "idle"
    /\ tupleSets = <<>>
    /\ union = {}
    /\ difference = {}
    /\ tset = {}
    /\ limit = 0
    /\ sliced = <<>>

(* A Farm of any number of clusters and any write quorum, about to serve *)
(* one Insert or Delete.                                                 *)
InitWrite ==
    /\ nClusters \in 0..MaxClusters
    /\ writeQuorum \in 0..(MaxClusters + 1)
    /\ store = [c \in AllClusters |-> NoStore]
    /\ calls = [c \in AllClusters |-> <<>>]
    /\ instr = [n \in Counters |-> 0]
    /\ InitWriteVars
    /\ InitRepairVars
    /\ InitSetVars

NextWrite ==
    \/ Insert
    \/ Delete
    \/ \E c \in AllClusters : ClusterAction(c)
    \/ \E c \in AllClusters : TaskSend(c)
    \/ Gather

SpecWrite == InitWrite /\ [][NextWrite]_vars

(* The same with the scheduling the goroutines get: a cluster call that is *)
(* running returns, and a goroutine that can send does send.  Nothing is   *)
(* assumed of the coordinator.                                             *)
SpecWriteFair ==
    /\ InitWrite
    /\ [][NextWrite]_vars
    /\ \A c \in AllClusters : WF_vars(ClusterAction(c)) /\ WF_vars(TaskSend(c))

(* A Farm whose clusters hold anything for (Key, Member), about to serve *)
(* one Repair.                                                           *)
InitRepair ==
    /\ nClusters \in 0..MaxRepairClusters
    /\ writeQuorum = (nClusters \div 2) + 1
    /\ store \in [AllClusters -> StoreStates]
    /\ \A c \in AllClusters \ Clusters : store[c] = NoStore
    /\ calls = [c \in AllClusters |-> <<>>]
    /\ instr = [n \in Counters |-> 0]
    /\ InitWriteVars
    /\ InitRepairVars
    /\ InitSetVars

NextRepair ==
    \/ \E km \in KeyMembers : Repair(km)
    \/ \E c \in AllClusters : ScoreTask(c)
    \/ RepairGather
    \/ \E c \in AllClusters : Push(c)
    \/ \E g \in InstrTasks : InstrTask(g)

SpecRepair == InitRepair /\ [][NextRepair]_vars

(* A Farm of up to MaxClusters clusters about to serve one Repair after a  *)
(* partly failed Insert: the first cluster holds the newest insert of      *)
(* (Key, Member), each other cluster holds it or nothing.                  *)
Newest == [score |-> MaxScore, inserted |-> TRUE]

PushStoreStates == {NoStore, Newest}

InitRepairPush ==
    /\ nClusters \in 0..MaxClusters
    /\ writeQuorum = (nClusters \div 2) + 1
    /\ store \in [AllClusters -> PushStoreStates]
    /\ \A c \in AllClusters \ Clusters : store[c] = NoStore
    /\ 1 \in Clusters => store[1] = Newest
    /\ calls = [c \in AllClusters |-> <<>>]
    /\ instr = [n \in Counters |-> 0]
    /\ InitWriteVars
    /\ InitRepairVars
    /\ InitSetVars

(* Repair with the scheduling its push goroutines get: a push that has been *)
(* started runs, and its cluster call returns.                             *)
SpecRepairFair ==
    /\ InitRepairPush
    /\ [][NextRepair]_vars
    /\ \A c \in AllClusters : WF_vars(Push(c))

(* A Farm that serves nothing: the state the set functions are called in. *)
InitFarmIdle ==
    /\ nClusters = 0
    /\ writeQuorum = 1
    /\ store = [c \in AllClusters |-> NoStore]
    /\ calls = [c \in AllClusters |-> <<>>]
    /\ instr = [n \in Counters |-> 0]
    /\ InitWriteVars
    /\ InitRepairVars

(* unionDifference on any list of up to MaxClusters tuple sets, one per *)
(* cluster that answered a read.                                        *)
InitUnion ==
    /\ InitFarmIdle
    /\ spc = "idle"
    /\ tupleSets \in UNION {[1..n -> SUBSET UnionTuples] : n \in 0..MaxClusters}
    /\ union = {}
    /\ difference = {}
    /\ tset = {}
    /\ limit = 0
    /\ sliced = <<>>

NextUnion == UnionDifference

SpecUnion == InitUnion /\ [][NextUnion]_vars

(* orderedLimitedSlice on any tuple set and any limit from 0 to MaxLimit. *)
InitSlice ==
    /\ InitFarmIdle
    /\ spc = "idle"
    /\ tupleSets = <<>>
    /\ union = {}
    /\ difference = {}
    /\ tset \in SUBSET SliceTuples
    /\ limit \in 0..MaxLimit
    /\ sliced = <<>>

NextSlice == OrderedLimitedSlice

SpecSlice == InitSlice /\ [][NextSlice]_vars

----------------------------------------------------------------------------
(* Properties of the write coordinator, checked under SpecWrite.           *)

(* The clusters whose goroutine has delivered a nil error. *)
acknowledged == {c \in Clusters : wtask[c] = "sent" /\ werr[c].nil}
(* The clusters on which the action has returned without / with an error. *)
actionSucceeded == {c \in Clusters : wtask[c] \in {"acted", "sent"} /\ werr[c].nil}
actionFailed == {c \in Clusters : wtask[c] \in {"acted", "sent"} /\ ~werr[c].nil}
(* The clusters whose action has not returned yet. *)
actionRunning == {c \in Clusters : wtask[c] = "run"}

returnedSuccess == wpc = "done" /\ wresult = Nil
returnedFailure == wpc = "done" /\ ~wresult.nil
nonEmptyCall == wpc # "idle" /\ Len(tuples) > 0

(* C1: if a non-empty Insert or Delete has returned success, at least     *)
(* writeQuorum distinct clusters have replied without error.              *)
C1_SuccessImpliesQuorumAcks ==
    (nonEmptyCall /\ returnedSuccess) => Cardinality(acknowledged) >= writeQuorum

(* C1 witness: a success on a quorum of two with one cluster failed. *)
C1_Witness ==
    /\ nonEmptyCall /\ returnedSuccess
    /\ nClusters = 3 /\ writeQuorum = 2
    /\ Cardinality(acknowledged) = 2
    /\ Len(errors) = 1

(* C2 as stated: the coordinator is never still gathering once the replies *)
(* gathered so far put the quorum out of reach (successes + pending <      *)
(* writeQuorum); it has returned the failure by then.                      *)
C2_FailsAsSoonAsUnreachable ==
    (nonEmptyCall /\ wpc = "gather" /\ writeQuorum <= nClusters)
        => (got - Len(errors)) + (nClusters - got) >= writeQuorum

(* C2 amended: a non-empty Insert or Delete returns failure only after it  *)
(* has gathered the reply of every cluster, fewer than writeQuorum of them *)
(* successes; it does not return early when the quorum gets out of reach.  *)
C2_FailsAfterAllReplies ==
    (nonEmptyCall /\ returnedFailure)
        => /\ got = nClusters
           /\ got - Len(errors) < writeQuorum
           /\ \A c \in Clusters : wtask[c] = "sent"

(* C2 witness: a failure returned after three errors on a quorum of two:   *)
(* the quorum was out of reach after the second.                           *)
C2_Witness ==
    /\ nonEmptyCall /\ returnedFailure
    /\ nClusters = 3 /\ writeQuorum = 2
    /\ got = 3 /\ Len(errors) = 3

(* C3: with writeQuorum >= 1, a non-empty Insert or Delete returns success *)
(* upon the reply that brings the successes to writeQuorum: it is never    *)
(* still gathering with writeQuorum successes, and on success it has       *)
(* consumed exactly writeQuorum successful replies.                        *)
C3_SuccessAtQuorum ==
    (nonEmptyCall /\ writeQuorum >= 1)
        => /\ (wpc = "gather" => got - Len(errors) < writeQuorum)
           /\ (returnedSuccess => got - Len(errors) = writeQuorum)

(* C3 witness: success returned on the first reply while one call is still *)
(* outstanding and one reply is left unconsumed in the channel.            *)
C3_Witness ==
    /\ nonEmptyCall /\ returnedSuccess
    /\ nClusters = 3 /\ writeQuorum = 1 /\ got = 1
    /\ Cardinality(actionRunning) = 1
    /\ Len(errChan) = 1

(* C4 as stated: Insert returns success whenever more than half of the     *)
(* clusters succeed in writing the batch (taken here for the write quorums *)
(* the clusters can meet, 1 <= writeQuorum <= number of clusters).         *)
C4_MajorityImpliesSuccess ==
    (nonEmptyCall /\ wop = "Insert" /\ wpc = "done"
        /\ 1 <= writeQuorum /\ writeQuorum <= nClusters
        /\ 2 * Cardinality(actionSucceeded) > nClusters)
        => wresult = Nil

(* C5: when a non-empty Insert or Delete has returned failure, fewer than  *)
(* writeQuorum clusters succeeded, also counting every action that has not *)
(* returned yet, and each cluster has received the action once and nothing *)
(* else (no rollback).                                                     *)
C5_FailureBelowQuorum ==
    (nonEmptyCall /\ returnedFailure)
        => /\ Cardinality(actionSucceeded) + Cardinality(actionRunning) < writeQuorum
           /\ \A c \in Clusters \ actionRunning :
                  calls[c] = <<Call(wop, tuples, werr[c])>>

(* C5 witness: a failure on a quorum of three with two clusters that keep  *)
(* the write.                                                              *)
C5_Witness ==
    /\ nonEmptyCall /\ returnedFailure
    /\ nClusters = 3 /\ writeQuorum = 3
    /\ Cardinality(actionSucceeded) = 2
    /\ \A c \in actionSucceeded : calls[c] = <<Call(wop, tuples, Nil)>>

(* C6: the error of a quorum failure contains the message of every cluster *)
(* whose action failed.                                                    *)
C6_FailureListsEveryError ==
    (nonEmptyCall /\ returnedFailure)
        => \A c \in actionFailed : Contains(wresult.msg, werr[c].msg)

(* C6 witness: a failure with two different messages gathered. *)
C6_Witness ==
    /\ nonEmptyCall /\ returnedFailure
    /\ errors = << <<"b", "c">>, <<"a">> >>
    /\ Cardinality(actionFailed) = 2

(* C7: an Insert or Delete of an empty batch returns success and changes   *)
(* nothing: no call reaches a cluster, no goroutine is started and nothing *)
(* is recorded in the instrumentation.                                     *)
C7_EmptyBatchNoOp ==
    (wpc # "idle" /\ Len(tuples) = 0)
        => /\ returnedSuccess
           /\ \A c \in AllClusters : calls[c] = <<>> /\ wtask[c] = "none"
           /\ \A n \in Counters : instr[n] = 0
           /\ store = [c \in AllClusters |-> NoStore]
           /\ errChan = <<>>

(* C7 witness: an empty Delete on three clusters has returned. *)
C7_Witness ==
    /\ wpc = "done" /\ Len(tuples) = 0 /\ wop = "Delete"
    /\ nClusters = 3 /\ writeQuorum = 2

----------------------------------------------------------------------------
(* Properties of the repair coordinator, checked under SpecRepair.         *)

MaxOf(S) == CHOOSE x \in S : \A y \in S : y <= x
MinOf(S) == CHOOSE x \in S : \A y \in S : x <= y

(* The clusters whose Score query has replied without / with an error. *)
scoreSucceeded == {c \in Clusters : rtask[c] = "sent" /\ ~rresp[c].err}
scoreFailed == {c \in Clusters : rtask[c] = "sent" /\ rresp[c].err}

(* The clusters whose Score query failed or replied something else than the *)
(* elected (score, side).                                                   *)
laggingClusters ==
    {c \in Clusters : \/ rresp[c].err
                      \/ rresp[c].score # highestScore
                      \/ rresp[c].wasInserted # wasInserted}

(* C8: whatever the order the responses are gathered in, the score Repair  *)
(* has elected when it returns is the maximum score of the successful      *)
(* responses, and 0 if there is none.                                      *)
C8_ElectedScoreIsMax ==
    rpc = "returned"
        => highestScore = MaxOf({rresp[c].score : c \in scoreSucceeded} \cup {0})

(* C8 witness: two successful responses with scores 1 and MaxScore; the    *)
(* higher one is elected.                                                  *)
C8_Witness ==
    /\ rpc = "returned" /\ nClusters = 2
    /\ scoreSucceeded = {1, 2}
    /\ rresp[1].score = MaxScore /\ rresp[2].score = 1
    /\ highestScore = MaxScore

(* C9: when Repair has returned with an elected score above zero and some  *)
(* cluster lagging, every lagging cluster has a push, which sends exactly  *)
(* one single-tuple Insert (elected side inserted) or Delete (elected side *)
(* deleted) of (Key, elected score, Member), and no other cluster has a    *)
(* push or receives any call.                                              *)
C9_PushToExactlyTheLagging ==
    (rpc = "returned" /\ highestScore > 0 /\ laggingClusters # {})
        => \A c \in Clusters :
              IF c \in laggingClusters
              THEN /\ push[c] \in {"run", "done"}
                   /\ push[c] = "run" => calls[c] = <<>>
                   /\ push[c] = "done" =>
                        /\ Len(calls[c]) = 1
                        /\ calls[c][1].op = (IF wasInserted THEN "Insert" ELSE "Delete")
                        /\ calls[c][1].tuples =
                               <<[Key |-> Key, Score |-> highestScore, Member |-> Member]>>
              ELSE push[c] = "none" /\ calls[c] = <<>>

(* C9 witness: cluster 1 failed its query and got the Delete of the score  *)
(* elected from cluster 2, which got nothing.                              *)
C9_Witness ==
    /\ rpc = "returned" /\ nClusters = 2
    /\ highestScore = MaxScore /\ ~wasInserted
    /\ scoreFailed = {1}
    /\ push[1] = "done" /\ Len(calls[1]) = 1 /\ calls[1][1].op = "Delete"
    /\ push[2] = "none" /\ calls[2] = <<>>

(* C10: if every Score query succeeded and all responses carry the same    *)
(* (score, side), no cluster has a push and no cluster receives a call.    *)
C10_AgreementNoWrite ==
    (/\ scoreSucceeded = Clusters
     /\ \A c, d \in Clusters : /\ rresp[c].score = rresp[d].score
                                /\ rresp[c].wasInserted = rresp[d].wasInserted)
        => \A c \in AllClusters : push[c] = "none" /\ calls[c] = <<>>

(* C10 witness: two clusters agree on (MaxScore, inserted); Repair has     *)
(* returned and recorded the redundant check.                              *)
C10_Witness ==
    /\ rpc = "returned" /\ nClusters = 2
    /\ scoreSucceeded = {1, 2}
    /\ \A c \in Clusters : rresp[c].score = MaxScore /\ rresp[c].wasInserted
    /\ instr["RepairCheckRedundant"] = 1

(* C11: if no successful Score response carries a score above zero (all    *)
(* queries failed, all successful scores are 0, or a mix), Repair records  *)
(* RepairCheckCompleteFailure and returns without a push or a call to any  *)
(* cluster.                                                                *)
C11_NothingFoundNoWrite ==
    (rpc = "returned" /\ \A c \in scoreSucceeded : rresp[c].score = 0)
        => /\ instr["RepairCheckCompleteFailure"] = 1
           /\ instr["RepairCheckRedundant"] = 0
           /\ instr["RepairWriteCount"] = 0
           /\ \A c \in AllClusters : push[c] = "none" /\ calls[c] = <<>>

(* C11 witness: one query failed, the other replied score 0. *)
C11_Witness ==
    /\ rpc = "returned" /\ nClusters = 2
    /\ scoreFailed = {1} /\ scoreSucceeded = {2} /\ rresp[2].score = 0
    /\ instr["RepairCheckCompleteFailure"] = 1
    /\ instr["RepairCheckPartialFailure"] = 1

(* Every Score query succeeded, some cluster held a score above zero, and  *)
(* every push Repair started has completed with success.                   *)
repairedWithSuccess ==
    /\ rpc = "returned"
    /\ scoreSucceeded = Clusters
    /\ \E c \in Clusters : rresp[c].score > 0
    /\ \A c \in Clusters :
          /\ push[c] # "run"
          /\ \A i \in 1..Len(calls[c]) : calls[c][i].ok

allHoldElected ==
    \A c \in Clusters : store[c] = [score |-> highestScore, inserted |-> wasInserted]

(* C12 as stated: after a Repair whose queries and pushes all succeeded,   *)
(* every cluster holds the elected (score, side).                          *)
C12_RepairConverges == repairedWithSuccess => allHoldElected

(* C12 amended: the same, provided no two clusters held the maximum score  *)
(* on different sides when they were queried.                              *)
C12_RepairConvergesWithoutTie ==
    (/\ repairedWithSuccess
     /\ \A c, d \in Clusters :
           (rresp[c].score = highestScore /\ rresp[d].score = highestScore)
               => rresp[c].wasInserted = rresp[d].wasInserted)
        => allHoldElected

(* C12 witness: cluster 2 held (1, inserted), cluster 1 (MaxScore,         *)
(* deleted); the Delete pushed to cluster 2 succeeded and it now holds     *)
(* (MaxScore, deleted).                                                    *)
C12_Witness ==
    /\ repairedWithSuccess /\ nClusters = 2
    /\ rresp[1].score = MaxScore /\ ~rresp[1].wasInserted
    /\ rresp[2].score = 1 /\ rresp[2].wasInserted
    /\ push[2] = "done"
    /\ store[2] = [score |-> MaxScore, inserted |-> FALSE]

(* The positions in gathered of the successful responses with the highest  *)
(* score.                                                                  *)
maxPositions ==
    {i \in 1..Len(gathered) : ~gathered[i].err /\ gathered[i].score = highestScore}

(* Two successful responses carry the highest score on different sides. *)
tieAcrossSides ==
    \E i, j \in maxPositions : gathered[i].wasInserted # gathered[j].wasInserted

(* C17: when Repair has returned after a tie, above zero, between          *)
(* responses on different sides, the elected side is the side of the first *)
(* of them gathered, and every cluster that replied the highest score on  *)
(* the other side has a push, whose call is the write of the elected side. *)
C17_FirstGatheredWinsTie ==
    (rpc = "returned" /\ highestScore > 0 /\ tieAcrossSides)
        => /\ wasInserted = gathered[MinOf(maxPositions)].wasInserted
           /\ \A i \in maxPositions :
                 gathered[i].wasInserted # wasInserted
                     => LET c == gathered[i].cluster
                        IN /\ push[c] \in {"run", "done"}
                           /\ \A k \in 1..Len(calls[c]) :
                                 calls[c][k].op = (IF wasInserted THEN "Insert" ELSE "Delete")

(* C17 witness: cluster 2 replied (MaxScore, deleted) first, then cluster 1 *)
(* (MaxScore, inserted); the deleted side is elected and cluster 1 got the *)
(* Delete.                                                                 *)
C17_Witness ==
    /\ rpc = "returned" /\ nClusters = 2
    /\ Len(gathered) = 2
    /\ gathered[1] = ScoreResponse(2, MaxScore, FALSE, FALSE)
    /\ gathered[2] = ScoreResponse(1, MaxScore, TRUE, FALSE)
    /\ ~wasInserted
    /\ push[1] = "done" /\ Len(calls[1]) = 1 /\ calls[1][1].op = "Delete"
    /\ push[2] = "none"

(* C20: a Repair call records exactly one of RepairCheckCompleteFailure,   *)
(* RepairCheckRedundant and RepairWriteCount, none before it returns:      *)
(* the first exactly when the elected score is zero, the second exactly    *)
(* when it is above zero and no cluster is lagging, the third exactly when *)
(* it is above zero and some cluster is lagging, and then a push exists.   *)
C20_ExactlyOneOutcomeCounter ==
    LET failure == instr["RepairCheckCompleteFailure"]
        redundant == instr["RepairCheckRedundant"]
        writes == instr["RepairWriteCount"]
    IN IF rpc # "returned"
       THEN failure + redundant + writes = 0
       ELSE /\ failure + redundant + writes = 1
            /\ failure = 1 <=> highestScore = 0
            /\ redundant = 1 <=> (highestScore > 0 /\ laggingClusters = {})
            /\ writes = 1 <=> (highestScore > 0 /\ laggingClusters # {})
            /\ writes = 1 => \E c \in Clusters : push[c] # "none"

(* C20 witness: a Repair that recorded RepairWriteCount and started a push. *)
C20_Witness ==
    /\ rpc = "returned" /\ nClusters = 2
    /\ instr["RepairWriteCount"] = 1
    /\ instr["RepairCheckRedundant"] = 0
    /\ instr["RepairCheckCompleteFailure"] = 0
    /\ push[1] = "run" /\ push[2] = "none"

(* C18: in a non-empty Insert or Delete every cluster has a goroutine and  *)
(* receives the action at most once; a goroutine whose action has returned *)
(* can always send its reply, also after the coordinator has returned; and *)
(* the call, which stays non-empty once started, always reaches the state  *)
(* where every goroutine has sent, each cluster having received the action *)
(* exactly once.                                                           *)
C18_TasksNeverBlock ==
    /\ [](nonEmptyCall =>
            \A c \in Clusters :
                /\ wtask[c] # "none"
                /\ Len(calls[c]) = (IF wtask[c] = "run" THEN 0 ELSE 1)
                /\ wtask[c] = "acted" => ENABLED TaskSend(c))
    /\ []<>(nonEmptyCall =>
              \A c \in Clusters : wtask[c] = "sent" /\ Len(calls[c]) = 1)

(* C18 witness: the coordinator returned on the first of three replies and *)
(* the two other goroutines have sent theirs all the same.                 *)
C18_Witness ==
    /\ nonEmptyCall /\ wpc = "done"
    /\ nClusters = 3 /\ got = 1
    /\ \A c \in Clusters : wtask[c] = "sent"
    /\ Len(errChan) = 2

(* The pushes of a Repair that has returned. *)
pushing == {c \in Clusters : push[c] = "run"}
pushed == {c \in Clusters : push[c] = "done"}
pushedOk == {c \in pushed : calls[c][1].ok}

(* C19: Repair returns without waiting for any push: at its return every   *)
(* push it issued is still running and has called nothing.  Each push      *)
(* eventually completes, having called its own cluster exactly once and    *)
(* recorded exactly one of RepairWriteSuccess and RepairWriteFailure, by    *)
(* its own outcome; a failed push leaves the other pushes running and      *)
(* calls no cluster again.                                                 *)
C19_PushesAreFireAndForget ==
    /\ [][rpc # "returned" /\ rpc' = "returned" =>
            \A c \in Clusters : push'[c] \in {"none", "run"} /\ calls'[c] = <<>>]_vars
    /\ [](rpc = "returned" =>
            /\ \A c \in pushing : calls[c] = <<>>
            /\ \A c \in pushed : Len(calls[c]) = 1
            /\ \A c \in Clusters \ (pushing \cup pushed) : calls[c] = <<>>
            /\ instr["RepairWriteSuccess"] = Cardinality(pushedOk)
            /\ instr["RepairWriteFailure"] = Cardinality(pushed \ pushedOk))
    /\ [][\A c \in Clusters :
            push[c] = "run" /\ push'[c] = "done" =>
                /\ \A d \in Clusters \ {c} : push'[d] = push[d] /\ calls'[d] = calls[d]
                /\ instr'["RepairWriteSuccess"] + instr'["RepairWriteFailure"]
                       = instr["RepairWriteSuccess"] + instr["RepairWriteFailure"] + 1]_vars
    /\ []<>(pushing = {})

C19_Witness ==
    /\ rpc = "returned"
    /\ \E c, d, e \in Clusters :
        /\ push[c] = "done" /\ ~calls[c][1].ok
        /\ push[d] = "done" /\ calls[d][1].ok
        /\ push[e] = "none"
        /\ store[d] = store[e]

----------------------------------------------------------------------------
(* Properties of unionDifference, checked under SpecUnion.                 *)

inputTuples == UNION {tupleSets[i] : i \in 1..Len(tupleSets)}
inputKeyMembers == {keyMemberOf(t) : t \in inputTuples}
scoresIn(km, set) == {t.Score : t \in {u \in set : keyMemberOf(u) = km}}
singleScored(set) == \A t, u \in set : keyMemberOf(t) = keyMemberOf(u) => t = u

(* C13: the union holds, for each (key, member) of some input, exactly one *)
(* tuple, carrying the maximum score the pair has in any input, and holds  *)
(* no tuple of a pair that is in no input.                                 *)
C13_UnionIsBestScorePerKeyMember ==
    spc = "done" /\ tupleSets # <<>> =>
        /\ \A km \in inputKeyMembers :
              {t \in union : keyMemberOf(t) = km}
                 = {KeyScoreMember(km.Key, MaxOf(scoresIn(km, inputTuples)), km.Member)}
        /\ \A t \in union : keyMemberOf(t) \in inputKeyMembers

C13_Witness ==
    /\ spc = "done"
    /\ Len(tupleSets) = 3
    /\ tupleSets[1] = {KeyScoreMember(Key, MaxScore, Member)}
    /\ tupleSets[2] = {KeyScoreMember(Key, 1, Member), KeyScoreMember(Key, 1, OtherMember)}
    /\ tupleSets[3] = {}
    /\ Cardinality(union) = 2

(* C14: the difference is exactly the set of (key, member) pairs of some   *)
(* input that do not carry the same scores in every input: a pair that an  *)
(* input misses or that has different scores in different inputs is in it, *)
(* a pair with one identical score in all inputs is not.                   *)
C14_DifferenceIsImperfectAgreement ==
    spc = "done" =>
        /\ difference =
              {km \in inputKeyMembers :
                  \E i, j \in 1..Len(tupleSets) :
                      scoresIn(km, tupleSets[i]) # scoresIn(km, tupleSets[j])}
        /\ \A km \in inputKeyMembers :
              /\ (\E i \in 1..Len(tupleSets) : scoresIn(km, tupleSets[i]) = {})
                    => km \in difference
              /\ (\E sc \in 1..MaxScore :
                    \A i \in 1..Len(tupleSets) : scoresIn(km, tupleSets[i]) = {sc})
                    => km \notin difference

C14_Witness ==
    /\ spc = "done"
    /\ Len(tupleSets) = 3
    /\ \A i \in 1..3 : KeyScoreMember(Key, 1, OtherMember) \in tupleSets[i]
    /\ scoresIn(keyMember(Key, Member), tupleSets[1]) = {1}
    /\ scoresIn(keyMember(Key, Member), tupleSets[2]) = {MaxScore}
    /\ difference = {keyMember(Key, Member)}

(* The union of a list of tuple sets. *)
unionOf(sets) == unionDifference(sets, TRUE).union

(* The list with the inputs at positions i and j exchanged.  Every       *)
(* permutation of a list is a sequence of such exchanges.                 *)
exchanged(sets, i, j) ==
    [x \in 1..Len(sets) |-> IF x = i THEN sets[j] ELSE IF x = j THEN sets[i] ELSE sets[x]]

unionCommutative ==
    \A i, j \in 1..Len(tupleSets) :
        i < j => unionOf(exchanged(tupleSets, i, j)) = union

unionAssociative ==
    \A i \in 0..Len(tupleSets) :
        unionOf(<<unionOf(SubSeq(tupleSets, 1, i)),
                  unionOf(SubSeq(tupleSets, i + 1, Len(tupleSets)))>>) = union

(* C15 as stated: union is associative, commutative and idempotent, and *)
(* union(S, S) = S for every tuple set S.                               *)
C15_UnionLaws ==
    spc = "done" =>
        /\ unionCommutative
        /\ unionAssociative
        /\ \A i \in 1..Len(tupleSets) :
              unionOf(<<tupleSets[i], tupleSets[i]>>) = tupleSets[i]

(* C15, amended: union is associative and commutative, union(S, S) is   *)
(* union(S), and it is S when S holds no (key, member) at two scores.    *)
C15_UnionLawsOnSingleScoredSets ==
    spc = "done" =>
        /\ unionCommutative
        /\ unionAssociative
        /\ unionOf(<<union, union>>) = union
        /\ \A i \in 1..Len(tupleSets) :
              LET twice == unionOf(<<tupleSets[i], tupleSets[i]>>)
              IN /\ twice = unionOf(<<tupleSets[i]>>)
                 /\ singleScored(tupleSets[i]) => twice = tupleSets[i]

C15_Witness ==
    /\ spc = "done"
    /\ Len(tupleSets) = 3
    /\ tupleSets[1] = {KeyScoreMember(Key, 1, Member), KeyScoreMember(Key, 1, OtherMember)}
    /\ tupleSets[2] = {KeyScoreMember(Key, 1, Member), KeyScoreMember(Key, MaxScore, Member)}
    /\ tupleSets[3] = {KeyScoreMember(Key, MaxScore, Member)}
    /\ union = {KeyScoreMember(Key, MaxScore, Member), KeyScoreMember(Key, 1, OtherMember)}

----------------------------------------------------------------------------
(* Properties of orderedLimitedSlice, checked under SpecSlice.             *)

(* The canonical order: key ascending, then score descending, then member *)
(* ascending.                                                             *)
canonicallyBefore(x, y) ==
    \/ StringLess(x.Key, y.Key)
    \/ x.Key = y.Key /\ x.Score > y.Score
    \/ x.Key = y.Key /\ x.Score = y.Score /\ StringLess(x.Member, y.Member)

slicedTuples == {sliced[i] : i \in 1..Len(sliced)}

(* C16: the slice holds at most limit tuples, none twice, in the canonical *)
(* order, and they are the first min(limit, |S|) tuples of S in that order. *)
C16_SliceIsCanonicalPrefix ==
    spc = "done" =>
        /\ Len(sliced) <= limit
        /\ Len(sliced) = MinOf({limit, Cardinality(tset)})
        /\ \A i, j \in 1..Len(sliced) : i < j => canonicallyBefore(sliced[i], sliced[j])
        /\ Cardinality(slicedTuples) = Len(sliced)
        /\ slicedTuples \subseteq tset
        /\ \A t \in tset \ slicedTuples : \A u \in slicedTuples : canonicallyBefore(u, t)

C16_Witness ==
    /\ spc = "done"
    /\ limit = 3
    /\ Cardinality(tset) = 5
    /\ sliced = <<KeyScoreMember(OtherKey, MaxScore, OtherMember),
                  KeyScoreMember(OtherKey, 1, Member),
                  KeyScoreMember(Key, MaxScore, Member)>>
    /\ KeyScoreMember(Key, MaxScore, OtherMember) \in tset
    /\ KeyScoreMember(Key, 1, Member) \in tset


=============================================================================
